---- MODULE Spec2Model ----
(***************************************************************************)
(* Model of FilteredImage (src/src/models/filteredimage.cpp): a scene      *)
(* graph item that loads a photo, corrects its orientation, hands it to a  *)
(* pluggable filter object, tracks the "applying" state, commits and saves *)
(* the result and uploads the displayed buffer as a texture.               *)
(*                                                                         *)
(* An image is its pixel grid: a sequence of rows, each a sequence of      *)
(* pixels.  The null QImage is the empty grid.  Every handler is an        *)
(* operator from the object's state (a record) to its state after the      *)
(* call; an action applies one handler to the current state.               *)
(***************************************************************************)
EXTENDS Integers, Sequences, FiniteSets, TLC

VARIABLES
    m_source,            \* QString m_source
    m_image,             \* QImage m_image            (BaseImage)
    m_filteredImage,     \* QImage m_filteredImage    (FilteredImage)
    m_filter,            \* AbstractImageFilter *m_filter
    m_isApplyingFilter,  \* bool m_isApplyingFilter   (ApplyingFlag)
    m_imageChanged,      \* bool m_imageChanged       (dirty flag)
    implicitWidth,       \* QQuickItem::implicitWidth
    implicitHeight,      \* QQuickItem::implicitHeight
    conn,                \* per filter: connections filterApplied -> this
    pending,             \* per filter: requests accepted, result not yet emitted
    node,                \* the QSGSimpleTextureNode the renderer holds, or NoNode
    lastOp,              \* the handler that ran last
    requests,            \* apply requests sent to filters during the last handler
    emitted,             \* signals this object emitted during the last handler
    written,             \* what the last handler asked the file system to write
    r_src,               \* rotate alone: the image given to rotate
    r_orientation,       \* rotate alone: the orientation code given to it
    r_dst,               \* rotate alone: the image it returned last
    r_pc                 \* rotate alone: "idle", "start", "rotated" or "back"

vars == << m_source, m_image, m_filteredImage, m_filter, m_isApplyingFilter,
           m_imageChanged, implicitWidth, implicitHeight, conn, pending, node,
           lastOp, requests, emitted, written,
           r_src, r_orientation, r_dst, r_pc >>

rvars == << r_src, r_orientation, r_dst, r_pc >>

ovars == << m_source, m_image, m_filteredImage, m_filter, m_isApplyingFilter,
            m_imageChanged, implicitWidth, implicitHeight, conn, pending, node,
            lastOp, requests, emitted, written >>

----------------------------------------------------------------------------
(* Bounds and the environment's finite input sets                          *)

\* at most this many accepted requests of one filter are outstanding
MaxPending == 1

\* rotate alone: images of up to MaxSide x MaxSide pixels
MaxSide == 2

\* rotate alone: the pixel values
Pixels == {0, 1}

\* the values QDateTime::currentMSecsSinceEpoch() is drawn from
Times == {0, 907}

NullImage == << >>

NoFilter == "0"

\* two filter objects: "mono" has an empty parameter list, "tint" has parameters
Filters == {"mono", "tint"}

HasParameters(f) == f = "tint"

\* what a filter answers to applyFilter(image): it declines, it accepts and
\* reports later, or it accepts and reports before returning
Responses == {"declined", "async", "sync"}

\* the images a filter may carry in filterApplied
NotifiedImages == { NullImage, << <<9>> >> }

\* the source strings offered to setSource; "" is not readable
Sources == {"", "a.jpg", "b.jpg"}

Orientations == { "TopLeft", "TopRight", "BottomRight", "BottomLeft",
                  "LeftTop", "RightTop", "RightBottom", "LeftBottom" }

\* a value of the enum's type that is none of the eight codes
Unrecognized == "Unrecognized"

\* what QImageReader::read() returns for a source: the stored pixel grid
Decode(s) ==
    CASE s = "a.jpg" -> << <<1, 2>> >>
      [] s = "b.jpg" -> << <<3>>, <<4>> >>
      [] OTHER       -> NullImage

\* what NemoImageMetadata reports for a source
OrientationOf(s) ==
    CASE s = "a.jpg" -> "RightTop"
      [] s = "b.jpg" -> "TopLeft"
      [] OTHER       -> "TopLeft"

----------------------------------------------------------------------------
(* QImage                                                                  *)

isNull(img) == img = NullImage

height(img) == Len(img)

width(img) == IF img = NullImage THEN 0 ELSE Len(img[1])

\* QImage::mirrored(horizontal, vertical)
mirrored(img, horizontal, vertical) ==
    [r \in 1..height(img) |->
       [c \in 1..width(img) |->
          img[IF vertical THEN height(img) + 1 - r ELSE r]
             [IF horizontal THEN width(img) + 1 - c ELSE c]]]

\* QImage::transformed(QTransform().rotate(angle)) for angle 90.0 and -90.0:
\* a positive angle turns the image clockwise on screen
transformed(img, angle) ==
    IF angle = 90
    THEN [r \in 1..width(img) |->
            [c \in 1..height(img) |-> img[height(img) + 1 - c][r]]]
    ELSE [r \in 1..width(img) |->
            [c \in 1..height(img) |-> img[c][width(img) + 1 - r]]]

\* rotate with the turn of RightTop copied into LeftBottom
rotate_SameTurn(src, orientation) ==
    CASE orientation = "TopRight"    -> mirrored(src, TRUE, FALSE)
      [] orientation = "BottomRight" -> mirrored(src, TRUE, TRUE)
      [] orientation = "BottomLeft"  -> mirrored(src, FALSE, TRUE)
      [] orientation = "LeftTop"     -> mirrored(transformed(src, 90), TRUE, FALSE)
      [] orientation = "RightTop"    -> transformed(src, 90)
      [] orientation = "RightBottom" -> mirrored(transformed(src, -90), TRUE, FALSE)
      [] orientation = "LeftBottom"  -> transformed(src, 90)
      [] OTHER                       -> src

\* rotate with the angles of RightTop and LeftBottom exchanged
rotate_TurnsExchanged(src, orientation) ==
    CASE orientation = "TopRight"    -> mirrored(src, TRUE, FALSE)
      [] orientation = "BottomRight" -> mirrored(src, TRUE, TRUE)
      [] orientation = "BottomLeft"  -> mirrored(src, FALSE, TRUE)
      [] orientation = "LeftTop"     -> mirrored(transformed(src, 90), TRUE, FALSE)
      [] orientation = "RightTop"    -> transformed(src, -90)
      [] orientation = "RightBottom" -> mirrored(transformed(src, -90), TRUE, FALSE)
      [] orientation = "LeftBottom"  -> transformed(src, 90)
      [] OTHER                       -> src

rotate(src, orientation) ==
    CASE orientation = "TopRight"    -> mirrored(src, TRUE, FALSE)
      [] orientation = "BottomRight" -> mirrored(src, TRUE, TRUE)
      [] orientation = "BottomLeft"  -> mirrored(src, FALSE, TRUE)
      [] orientation = "LeftTop"     -> mirrored(transformed(src, 90), TRUE, FALSE)
      [] orientation = "RightTop"    -> transformed(src, 90)
      [] orientation = "RightBottom" -> mirrored(transformed(src, -90), TRUE, FALSE)
      [] orientation = "LeftBottom"  -> transformed(src, -90)
      [] OTHER                       -> src

\* the orientation-corrected decode of a source
Corrected(s) ==
    IF OrientationOf(s) # "TopLeft" THEN rotate(Decode(s), OrientationOf(s))
                                    ELSE Decode(s)

----------------------------------------------------------------------------
(* The object's state as a record, and the handlers                        *)

State ==
    [ m_source |-> m_source, m_image |-> m_image,
      m_filteredImage |-> m_filteredImage, m_filter |-> m_filter,
      m_isApplyingFilter |-> m_isApplyingFilter,
      m_imageChanged |-> m_imageChanged,
      implicitWidth |-> implicitWidth, implicitHeight |-> implicitHeight,
      conn |-> conn, pending |-> pending,
      requests |-> << >>, emitted |-> << >>, written |-> << >> ]

emit(s, signal, argument) ==
    [s EXCEPT !.emitted = Append(@, <<signal, argument>>)]

setIsApplyingFilter(s, value) ==
    IF s.m_isApplyingFilter # value
    THEN emit([s EXCEPT !.m_isApplyingFilter = value],
              "isApplyingFilterChanged", value)
    ELSE s

\* filterApplied that does not mark the display dirty
filterApplied_NotDirty(s, img) ==
    LET s1 == [s EXCEPT !.m_filteredImage = img]
        s2 == emit(s1, "imageChanged", s1.m_filteredImage)
    IN  setIsApplyingFilter(s2, FALSE)

filterApplied(s, img) ==
    LET s1 == [s EXCEPT !.m_filteredImage = img, !.m_imageChanged = TRUE]
        s2 == emit(s1, "imageChanged", s1.m_filteredImage)
    IN  setIsApplyingFilter(s2, FALSE)

image(s) == IF isNull(s.m_filteredImage) THEN s.m_image ELSE s.m_filteredImage

\* setSource without the comparison with the current source
setSource_NoGuard(s, source) ==
    LET s1 == [s EXCEPT !.m_source = source]
        s2 == [s1 EXCEPT !.m_image = Corrected(s1.m_source)]
        s3 == [s2 EXCEPT !.implicitWidth = width(s2.m_image),
                         !.implicitHeight = height(s2.m_image),
                         !.m_imageChanged = TRUE]
        s4 == emit(s3, "sourceChanged", s3.m_source)
    IN  emit(s4, "imageChanged", s4.m_image)

setSource(s, source) ==
    IF s.m_source # source
    THEN LET s1 == [s EXCEPT !.m_source = source]
             s2 == [s1 EXCEPT !.m_image = Corrected(s1.m_source)]
             s3 == [s2 EXCEPT !.implicitWidth = width(s2.m_image),
                              !.implicitHeight = height(s2.m_image),
                              !.m_imageChanged = TRUE]
             s4 == emit(s3, "sourceChanged", s3.m_source)
         IN  emit(s4, "imageChanged", s4.m_image)
    ELSE s

\* resetFilter that clears m_filteredImage instead of copying m_image into it
resetFilter_ClearsFiltered(s) ==
    LET s1 == [s EXCEPT !.m_filteredImage = NullImage, !.m_imageChanged = TRUE]
        s2 == emit(s1, "imageChanged", s1.m_filteredImage)
    IN  setIsApplyingFilter(s2, FALSE)

\* resetFilter without setIsApplyingFilter(false)
resetFilter_KeepsApplying(s) ==
    LET s1 == [s EXCEPT !.m_filteredImage = s.m_image, !.m_imageChanged = TRUE]
    IN  emit(s1, "imageChanged", s1.m_filteredImage)

resetFilter(s) ==
    LET s1 == [s EXCEPT !.m_filteredImage = s.m_image, !.m_imageChanged = TRUE]
        s2 == emit(s1, "imageChanged", s1.m_filteredImage)
    IN  setIsApplyingFilter(s2, FALSE)

\* A filter emits filterApplied(img): every connection to this object runs the slot.
RECURSIVE Invoke(_, _, _)
Invoke(s, n, img) ==
    IF n = 0 THEN s ELSE Invoke(filterApplied(s, img), n - 1, img)

EmitFilterApplied(s, f, img) == Invoke(s, s.conn[f], img)

\* the request carrying the displayed buffer instead of m_image
FilterApplyFilter_SendsDisplayed(s, response, result) ==
    LET f  == s.m_filter
        s1 == [s EXCEPT !.requests = Append(@, <<f, image(s), response>>)]
    IN  CASE response = "async" -> [s1 EXCEPT !.pending[f] = @ + 1]
          [] response = "sync"  -> EmitFilterApplied(s1, f, result)
          [] OTHER              -> s1

\* m_filter->applyFilter(m_image), up to its return
FilterApplyFilter(s, response, result) ==
    LET f  == s.m_filter
        s1 == [s EXCEPT !.requests = Append(@, <<f, s.m_image, response>>)]
    IN  CASE response = "async" -> [s1 EXCEPT !.pending[f] = @ + 1]
          [] response = "sync"  -> EmitFilterApplied(s1, f, result)
          [] OTHER              -> s1

Accepted(response) == response # "declined"

\* applyFilter without the disconnect of the previous filter
applyFilter_NoDisconnect(s, filter, response, result) ==
    LET s2 == [s EXCEPT !.m_filter = filter]
    IN  IF s2.m_filter # NoFilter
        THEN LET s3 == [s2 EXCEPT !.conn[filter] = @ + 1]
             IN  IF ~HasParameters(s3.m_filter)
                 THEN LET s4 == FilterApplyFilter(s3, response, result)
                      IN  IF Accepted(response)
                          THEN setIsApplyingFilter(s4, TRUE)
                          ELSE s4
                 ELSE resetFilter(s3)
        ELSE resetFilter(s2)

applyFilter(s, filter, response, result) ==
    LET s1 == IF s.m_filter # NoFilter
              THEN [s EXCEPT !.conn[s.m_filter] = 0]
              ELSE s
        s2 == [s1 EXCEPT !.m_filter = filter]
    IN  IF s2.m_filter # NoFilter
        THEN LET s3 == [s2 EXCEPT !.conn[filter] = @ + 1]
             IN  IF ~HasParameters(s3.m_filter)
                 THEN LET s4 == FilterApplyFilter(s3, response, result)
                      IN  IF Accepted(response)
                          THEN setIsApplyingFilter(s4, TRUE)
                          ELSE s4
                 ELSE resetFilter(s3)
        ELSE resetFilter(s2)

\* reApplyFilter that does not look at the filter's answer
reApplyFilter_IgnoresAnswer(s, response, result) ==
    IF s.m_filter # NoFilter
    THEN setIsApplyingFilter(FilterApplyFilter(s, response, result), TRUE)
    ELSE s

reApplyFilter(s, response, result) ==
    IF s.m_filter # NoFilter
    THEN LET s1 == FilterApplyFilter(s, response, result)
         IN  IF Accepted(response) THEN setIsApplyingFilter(s1, TRUE) ELSE s1
    ELSE s

\* applyCurrentFilter that clears m_filteredImage without copying it
applyCurrentFilter_DropsFiltered(s) ==
    IF ~isNull(s.m_filteredImage)
    THEN [s EXCEPT !.m_filteredImage = NullImage]
    ELSE s

\* applyCurrentFilter that does not clear m_filteredImage
applyCurrentFilter_KeepsFiltered(s) ==
    IF ~isNull(s.m_filteredImage)
    THEN [s EXCEPT !.m_image = s.m_filteredImage]
    ELSE s

applyCurrentFilter(s) ==
    IF ~isNull(s.m_filteredImage)
    THEN [s EXCEPT !.m_image = s.m_filteredImage, !.m_filteredImage = NullImage]
    ELSE s

\* QString::number(n) for n >= 0: the decimal digits
Digit(d) == CASE d = 0 -> "0" [] d = 1 -> "1" [] d = 2 -> "2" [] d = 3 -> "3"
              [] d = 4 -> "4" [] d = 5 -> "5" [] d = 6 -> "6" [] d = 7 -> "7"
              [] d = 8 -> "8" [] OTHER -> "9"

RECURSIVE number(_)
number(n) == IF n < 10 THEN <<Digit(n)>>
                       ELSE Append(number(n \div 10), Digit(n % 10))

\* saveImage without the commit
saveImage_NoCommit(s, msecs, ok) ==
    LET filename == number(msecs) \o <<".", "j", "p", "g">>
        s2 == [s EXCEPT !.written =
                 Append(@, [name |-> filename, content |-> s.m_image,
                            done |-> ok /\ ~isNull(s.m_image)])]
    IN  emit(s2, "imageSaved", filename)

saveImage(s, msecs, ok) ==
    LET s1 == applyCurrentFilter(s)
        filename == number(msecs) \o <<".", "j", "p", "g">>
        s2 == [s1 EXCEPT !.written =
                 Append(@, [name |-> filename, content |-> s1.m_image,
                            done |-> ok /\ ~isNull(s1.m_image)])]
    IN  emit(s2, "imageSaved", filename)

----------------------------------------------------------------------------
(* Render node sync                                                        *)

\* no node: what updatePaintNode receives first and returns for a null image
NoNode == [exists |-> FALSE, hasTexture |-> FALSE, texture |-> NullImage,
           rect |-> <<0, 0>>]

\* new QSGSimpleTextureNode(): a node without a texture
NewNode == [exists |-> TRUE, hasTexture |-> FALSE, texture |-> NullImage,
            rect |-> <<0, 0>>]

\* updatePaintNode that always uploads m_image
updatePaintNode_BaseOnly(s, oldNode) ==
    LET img == s.m_image
    IN  IF isNull(img)
        THEN <<s, NoNode>>
        ELSE LET n == IF ~oldNode.exists THEN NewNode ELSE oldNode
             IN  IF s.m_imageChanged \/ ~n.hasTexture
                 THEN << [s EXCEPT !.m_imageChanged = FALSE],
                         [exists |-> TRUE, hasTexture |-> TRUE, texture |-> img,
                          rect |-> <<s.implicitWidth, s.implicitHeight>>] >>
                 ELSE <<s, n>>

\* the pair (state after the call, returned node)
updatePaintNode(s, oldNode) ==
    LET img == IF ~isNull(s.m_filteredImage) THEN s.m_filteredImage ELSE s.m_image
    IN  IF isNull(img)
        THEN <<s, NoNode>>
        ELSE LET n == IF ~oldNode.exists THEN NewNode ELSE oldNode
             IN  IF s.m_imageChanged \/ ~n.hasTexture
                 THEN << [s EXCEPT !.m_imageChanged = FALSE],
                         [exists |-> TRUE, hasTexture |-> TRUE, texture |-> img,
                          rect |-> <<s.implicitWidth, s.implicitHeight>>] >>
                 ELSE <<s, n>>

----------------------------------------------------------------------------
(* Actions                                                                 *)

Commit(op, s) ==
    /\ m_source' = s.m_source
    /\ m_image' = s.m_image
    /\ m_filteredImage' = s.m_filteredImage
    /\ m_filter' = s.m_filter
    /\ m_isApplyingFilter' = s.m_isApplyingFilter
    /\ m_imageChanged' = s.m_imageChanged
    /\ implicitWidth' = s.implicitWidth
    /\ implicitHeight' = s.implicitHeight
    /\ conn' = s.conn
    /\ pending' = s.pending
    /\ requests' = s.requests
    /\ emitted' = s.emitted
    /\ written' = s.written
    /\ lastOp' = op
    /\ UNCHANGED rvars

\* the constructor; m_imageChanged is not initialised by it
Constructed ==
    /\ m_source = ""
    /\ m_image = NullImage
    /\ m_filteredImage = NullImage
    /\ m_filter = NoFilter
    /\ m_isApplyingFilter = FALSE
    /\ m_imageChanged \in BOOLEAN
    /\ implicitWidth = 0
    /\ implicitHeight = 0
    /\ conn = [f \in Filters |-> 0]
    /\ pending = [f \in Filters |-> 0]
    /\ node = NoNode
    /\ lastOp = <<"FilteredImage">>
    /\ requests = << >>
    /\ emitted = << >>
    /\ written = << >>

Init ==
    /\ Constructed
    /\ r_src = NullImage
    /\ r_orientation = "TopLeft"
    /\ r_dst = NullImage
    /\ r_pc = "idle"

\* a filter can take one more request only below the bound
CanAnswer(f, response) ==
    response = "async" => (f # NoFilter /\ pending[f] < MaxPending)

SetSource ==
    \E source \in Sources :
        /\ Commit(<<"setSource", source>>, setSource(State, source))
        /\ UNCHANGED node

ResetFilter ==
    /\ Commit(<<"resetFilter">>, resetFilter(State))
    /\ UNCHANGED node

ApplyFilter ==
    \E filter \in Filters \cup {NoFilter}, response \in Responses,
       result \in NotifiedImages :
        /\ CanAnswer(filter, response)
        /\ Commit(<<"applyFilter", filter>>,
                  applyFilter(State, filter, response, result))
        /\ UNCHANGED node

ReApplyFilter ==
    \E response \in Responses, result \in NotifiedImages :
        /\ CanAnswer(m_filter, response)
        /\ Commit(<<"reApplyFilter">>, reApplyFilter(State, response, result))
        /\ UNCHANGED node

ApplyCurrentFilter ==
    /\ Commit(<<"applyCurrentFilter">>, applyCurrentFilter(State))
    /\ UNCHANGED node

SaveImage ==
    \E msecs \in Times, ok \in BOOLEAN :
        /\ Commit(<<"saveImage">>, saveImage(State, msecs, ok))
        /\ UNCHANGED node

UpdatePaintNode ==
    LET r == updatePaintNode(State, node)
    IN  /\ Commit(<<"updatePaintNode">>, r[1])
        /\ node' = r[2]

\* a filter finishes an accepted request and emits filterApplied(img)
FilterFinishes ==
    \E f \in Filters, img \in NotifiedImages :
        /\ pending[f] > 0
        /\ Commit(<<"filterApplied", f, img>>,
                  EmitFilterApplied([State EXCEPT !.pending[f] = @ - 1], f, img))
        /\ UNCHANGED node

Next ==
    \/ SetSource
    \/ ResetFilter
    \/ ApplyFilter
    \/ ReApplyFilter
    \/ ApplyCurrentFilter
    \/ SaveImage
    \/ UpdatePaintNode
    \/ FilterFinishes

Spec == Init /\ [][Next]_vars

----------------------------------------------------------------------------
(* rotate alone: applied to every small image and every code, and then to  *)
(* its result with the code of the inverse transformation                  *)

\* the null image and every image of 1..MaxSide x 1..MaxSide pixels
Grids ==
    {NullImage} \cup
    UNION { [1..h -> [1..w -> Pixels]] : h \in 1..MaxSide, w \in 1..MaxSide }

Codes == Orientations \cup {Unrecognized}

\* the code of the geometric inverse of a code's transformation
InverseOf(orientation) ==
    CASE orientation = "RightTop"   -> "LeftBottom"
      [] orientation = "LeftBottom" -> "RightTop"
      [] OTHER                      -> orientation

InitRotate ==
    /\ Constructed
    /\ r_src \in Grids
    /\ r_orientation \in Codes
    /\ r_dst = NullImage
    /\ r_pc = "start"

Rotate ==
    /\ r_pc = "start"
    /\ r_dst' = rotate(r_src, r_orientation)
    /\ r_pc' = "rotated"
    /\ UNCHANGED << r_src, r_orientation >>
    /\ UNCHANGED ovars

RotateBack ==
    /\ r_pc = "rotated"
    /\ r_dst' = rotate(r_dst, InverseOf(r_orientation))
    /\ r_pc' = "back"
    /\ UNCHANGED << r_src, r_orientation >>
    /\ UNCHANGED ovars

NextRotate ==
    \/ Rotate
    \/ RotateBack

SpecRotate == InitRotate /\ [][NextRotate]_vars

----------------------------------------------------------------------------
(* Vocabulary of the claims                                                *)

\* the displayed buffer
Displayed == image(State)

\* what a render sync called now would return
Synced == updatePaintNode(State, node)[2]

\* the signals emitted by the last handler, by name
Emissions(name) == { i \in 1..Len(emitted) : emitted[i][1] = name }

\* the last handler sent an apply request and the filter answered `response`
Answered(response) ==
    /\ lastOp[1] \in {"applyFilter", "reApplyFilter"}
    /\ requests # << >>
    /\ requests[1][3] = response

----------------------------------------------------------------------------
(* C1: after applyFilter(f), f without parameters and accepting, the       *)
(* ApplyingFlag is true in every state until f's result is delivered; right *)
(* after the delivery the flag is false and image() is the notified image, *)
(* also when the result is delivered during the applyFilter call.          *)
C1_ApplyingUntilNotified ==
    /\ ( /\ m_filter # NoFilter
         /\ ~HasParameters(m_filter)
         /\ pending[m_filter] > 0 ) => m_isApplyingFilter
    /\ ( /\ lastOp[1] = "filterApplied"
         /\ lastOp[2] = m_filter ) =>
            (~m_isApplyingFilter /\ Displayed = lastOp[3])
    /\ ( /\ lastOp[1] = "applyFilter"
         /\ Answered("sync") ) =>
            (~m_isApplyingFilter /\ Displayed = emitted[1][2])

(* C2: after setSource(s), s not the current source, the displayed buffer  *)
(* (image() and what render sync uploads) is the orientation-corrected     *)
(* decode of s, FilteredImage is cleared and the intrinsic size is the     *)
(* decode's size.                                                          *)
C2_SourceIsDisplayed ==
    ( /\ lastOp[1] = "setSource"
      /\ emitted # << >> ) =>
        /\ Displayed = Corrected(lastOp[2])
        /\ isNull(m_filteredImage)
        /\ implicitWidth = width(Corrected(lastOp[2]))
        /\ implicitHeight = height(Corrected(lastOp[2]))
        /\ Synced.exists => Synced.texture = Corrected(lastOp[2])

(* C3: whenever ApplyingFlag is true, the attached filter has accepted a   *)
(* request whose result has not been delivered yet.                        *)
C3_ApplyingHasRequest ==
    m_isApplyingFilter => (m_filter # NoFilter /\ pending[m_filter] > 0)

(* C4 as stated: a filter detached while its request is in flight still    *)
(* has its late result written to FilteredImage and displayed.             *)
C4_LateResultWritten ==
    ( /\ lastOp[1] = "filterApplied"
      /\ lastOp[2] # m_filter ) =>
        (m_filteredImage = lastOp[3] /\ Displayed = lastOp[3])

(* C4 amended: applyFilter(g) leaves the requests in flight at the other   *)
(* filters in flight, and when a filter that is not the attached one       *)
(* emits its late result, the request ends and the object does not         *)
(* change: no buffer, no flag, no signal.                                  *)
C4_LateResultDropped ==
    [][ /\ (lastOp'[1] = "applyFilter" =>
              \A f \in Filters : f # lastOp'[2] => pending'[f] = pending[f])
        /\ ((lastOp'[1] = "filterApplied" /\ lastOp'[2] # m_filter) =>
              /\ pending'[lastOp'[2]] = pending[lastOp'[2]] - 1
              /\ UNCHANGED << m_image, m_filteredImage, m_isApplyingFilter,
                              m_imageChanged, m_filter >>
              /\ emitted' = << >>) ]_vars

C4_Witness ==
    /\ lastOp[1] = "filterApplied"
    /\ m_filter # NoFilter
    /\ lastOp[2] # m_filter
    /\ ~isNull(lastOp[3])
    /\ m_filteredImage # lastOp[3]

(* C5: when the filter declines the request of applyFilter(f) or of        *)
(* reApplyFilter(), BaseImage, FilteredImage and ApplyingFlag keep their   *)
(* values and neither imageChanged nor isApplyingFilterChanged is emitted. *)
C5_DeclineChangesNothing ==
    [][ Answered("declined")' =>
          /\ UNCHANGED << m_image, m_filteredImage, m_isApplyingFilter >>
          /\ Emissions("imageChanged")' = {}
          /\ Emissions("isApplyingFilterChanged")' = {} ]_vars

C5_Witness ==
    /\ Answered("declined")
    /\ ~m_isApplyingFilter
    /\ ~isNull(m_image)
    /\ m_filteredImage # m_image

(* C6: after applyFilter(f), f null or with parameters, ApplyingFlag is    *)
(* false, the displayed buffer is BaseImage and no request was sent.       *)
C6_ResetOnAttach ==
    ( /\ lastOp[1] = "applyFilter"
      /\ (lastOp[2] = NoFilter \/ HasParameters(lastOp[2])) ) =>
        /\ ~m_isApplyingFilter
        /\ Displayed = m_image
        /\ requests = << >>

C6_Witness ==
    /\ lastOp[1] = "applyFilter"
    /\ HasParameters(lastOp[2])
    /\ pending["mono"] > 0
    /\ ~isNull(m_image)
    /\ Emissions("isApplyingFilterChanged") # {}

(* C7: image() and the buffer a render sync uploads are the same buffer:   *)
(* FilteredImage when it is not null, BaseImage otherwise.                 *)
C7_OneDisplayedBuffer ==
    LET shown == IF m_filteredImage # NullImage THEN m_filteredImage
                                                ELSE m_image
    IN  /\ Displayed = shown
        /\ (m_imageChanged \/ ~node.hasTexture) =>
              IF isNull(shown) THEN ~Synced.exists
                               ELSE Synced.texture = shown

C7_Witness ==
    /\ lastOp[1] = "updatePaintNode"
    /\ ~isNull(m_image)
    /\ ~isNull(m_filteredImage)
    /\ m_filteredImage # m_image
    /\ node.texture = m_filteredImage

\* <integer>.jpg
IsIntegerJpg(name) ==
    /\ Len(name) >= 5
    /\ SubSeq(name, Len(name) - 3, Len(name)) = <<".", "j", "p", "g">>
    /\ \A i \in 1..(Len(name) - 4) :
          name[i] \in {"0", "1", "2", "3", "4", "5", "6", "7", "8", "9"}

(* C8: saveImage() commits (FilteredImage absent afterwards, BaseImage the *)
(* buffer displayed before) and emits exactly one imageSaved carrying      *)
(* <integer>.jpg, whether or not the write succeeded.                      *)
C8_SaveCommitsAndNotifies ==
    [][ lastOp'[1] = "saveImage" =>
          /\ isNull(m_filteredImage')
          /\ m_image' = Displayed
          /\ Cardinality(Emissions("imageSaved")') = 1
          /\ \A i \in Emissions("imageSaved")' : IsIntegerJpg(emitted'[i][2]) ]_vars

C8_Witness ==
    /\ lastOp[1] = "saveImage"
    /\ m_image = << <<9>> >>
    /\ m_source = "a.jpg"
    /\ ~written[1].done
    /\ Len(emitted[1][2]) > 5

(* C9: applyCurrentFilter() with FilteredImage present copies it into      *)
(* BaseImage and clears it; with FilteredImage absent it changes nothing   *)
(* and emits nothing; applying it again changes nothing.                   *)
C9_CommitIdempotent ==
    [][ lastOp'[1] = "applyCurrentFilter" =>
          /\ ~isNull(m_filteredImage) =>
                (m_image' = m_filteredImage /\ isNull(m_filteredImage'))
          /\ isNull(m_filteredImage) =>
                UNCHANGED << m_source, m_image, m_filteredImage, m_filter,
                             m_isApplyingFilter, m_imageChanged, implicitWidth,
                             implicitHeight, conn, pending, node >>
          /\ emitted' = << >>
          /\ applyCurrentFilter(State') = State' ]_vars

C9_Witness ==
    /\ lastOp[1] = "applyCurrentFilter"
    /\ m_image = << <<9>> >>
    /\ isNull(m_filteredImage)
    /\ m_source = "b.jpg"

(* C10: setSource(s) with s the current source changes nothing and emits   *)
(* nothing.                                                                *)
C10_SameSourceNoOp ==
    [][ (lastOp'[1] = "setSource" /\ lastOp'[2] = m_source) =>
          /\ UNCHANGED << m_source, m_image, m_filteredImage,
                          m_isApplyingFilter, m_imageChanged, implicitWidth,
                          implicitHeight >>
          /\ emitted' = << >> ]_vars

C10_Witness ==
    /\ lastOp = <<"setSource", "a.jpg">>
    /\ m_source = "a.jpg"
    /\ emitted = << >>
    /\ ~m_imageChanged
    /\ node.hasTexture

\* the last handler was a resetFilter(), called directly or by applyFilter
WasReset ==
    \/ lastOp[1] = "resetFilter"
    \/ /\ lastOp[1] = "applyFilter"
       /\ (lastOp[2] = NoFilter \/ HasParameters(lastOp[2]))

(* C11: ApplyingFlag never stays true forever: when it is true, a result   *)
(* notification that clears it is still to come without any user call,     *)
(* that is, a filter connected to the object still owes it a result.       *)
(* (Only filterApplied and resetFilter clear the flag, and resetFilter     *)
(* runs only in user calls.)                                               *)
C11_ApplyingEnds ==
    m_isApplyingFilter => \E f \in Filters : conn[f] > 0 /\ pending[f] > 0

(* C12: the object is subscribed to the result notification of exactly the *)
(* attached filter, once, and of no other filter.                          *)
C12_OneSubscription ==
    \A f \in Filters : conn[f] = IF f = m_filter THEN 1 ELSE 0

C12_Witness ==
    /\ lastOp = <<"applyFilter", "tint">>
    /\ pending["mono"] > 0
    /\ pending["tint"] > 0
    /\ conn["mono"] = 0
    /\ conn["tint"] = 1

(* C13 as stated: FilteredImage is non-null only after a filter result;    *)
(* in particular resetFilter(), and applyFilter() with a null or           *)
(* parameterized filter, leave FilteredImage null.                         *)
C13_ResetLeavesNull ==
    WasReset => isNull(m_filteredImage)

(* C13 amended: FilteredImage becomes non-null only by a delivered filter  *)
(* result (then it is the notified image) or by resetFilter(), called      *)
(* directly or by applyFilter() with a null or parameterized filter; and   *)
(* resetFilter() always leaves FilteredImage equal to BaseImage.           *)
C13_FilteredFromResultOrReset ==
    [][ /\ WasReset' => m_filteredImage' = m_image'
        /\ (isNull(m_filteredImage) /\ ~isNull(m_filteredImage')) =>
              \/ WasReset'
              \/ /\ lastOp'[1] = "filterApplied"
                 /\ lastOp'[2] = m_filter
                 /\ m_filteredImage' = lastOp'[3]
              \/ /\ Answered("sync")'
                 /\ m_filteredImage' = emitted'[1][2] ]_vars

C13_Witness ==
    /\ lastOp[1] = "resetFilter"
    /\ ~isNull(m_filteredImage)
    /\ m_filteredImage = m_image
    /\ pending["mono"] = 0
    /\ pending["tint"] = 0

(* C14: every apply request, of applyFilter(f) or reApplyFilter(), carries *)
(* the BaseImage of that moment, never FilteredImage; reApplyFilter() with *)
(* no filter attached sends no request and changes nothing.                *)
C14_RequestCarriesBase ==
    [][ /\ lastOp'[1] \in {"applyFilter", "reApplyFilter"} =>
              \A i \in 1..Len(requests') : requests'[i][2] = m_image
        /\ (lastOp'[1] = "reApplyFilter" /\ m_filter = NoFilter) =>
              /\ requests' = << >>
              /\ emitted' = << >>
              /\ UNCHANGED << m_source, m_image, m_filteredImage, m_filter,
                              m_isApplyingFilter, m_imageChanged,
                              implicitWidth, implicitHeight, conn, pending,
                              node >> ]_vars

C14_Witness ==
    /\ lastOp[1] = "reApplyFilter"
    /\ Answered("async")
    /\ ~isNull(m_filteredImage)
    /\ ~isNull(m_image)
    /\ m_filteredImage # m_image
    /\ requests[1][2] = m_image

(* C15: after setSource on an unreadable source BaseImage is null, the     *)
(* intrinsic size is 0x0 and the next render sync tears the node down and  *)
(* returns none.                                                           *)
C15_UnreadableTearsDown ==
    ( /\ lastOp[1] = "setSource"
      /\ emitted # << >>
      /\ isNull(Corrected(lastOp[2])) ) =>
        /\ isNull(m_image)
        /\ implicitWidth = 0
        /\ implicitHeight = 0
        /\ ~Synced.exists

(* C16: the node never shows stale pixels: a node with a texture and a     *)
(* clean dirty flag holds the content of the displayed buffer; every step  *)
(* that changes the displayed content sets the dirty flag, and the flag    *)
(* is cleared only by a render sync that uploads the displayed buffer.     *)
C16_NoStaleTexture ==
    /\ [] ( (node.exists /\ node.hasTexture /\ ~m_imageChanged) =>
               node.texture = Displayed )
    /\ [][ /\ Displayed' # Displayed => m_imageChanged'
           /\ (m_imageChanged /\ ~m_imageChanged') =>
                 /\ lastOp'[1] = "updatePaintNode"
                 /\ node'.hasTexture
                 /\ node'.texture = Displayed' ]_vars

C16_Witness ==
    /\ lastOp[1] = "applyCurrentFilter"
    /\ node.exists
    /\ node.hasTexture
    /\ ~m_imageChanged
    /\ node.texture = << <<9>> >>
    /\ m_image = << <<9>> >>
    /\ m_source = "a.jpg"

(* C17: commit never changes what is shown: applyCurrentFilter(), and      *)
(* saveImage() with its commit, leave image() as it was, emit no           *)
(* imageChanged and leave ApplyingFlag, the attached filter and the dirty  *)
(* flag unchanged.                                                         *)
C17_CommitKeepsDisplay ==
    [][ lastOp'[1] \in {"applyCurrentFilter", "saveImage"} =>
          /\ Displayed' = Displayed
          /\ Emissions("imageChanged")' = {}
          /\ UNCHANGED << m_isApplyingFilter, m_filter, m_imageChanged >> ]_vars

C17_Witness ==
    /\ lastOp[1] = "saveImage"
    /\ m_image = << <<9>> >>
    /\ isNull(m_filteredImage)
    /\ m_isApplyingFilter
    /\ m_imageChanged
    /\ m_source = "b.jpg"

(* C18: for every small pixel grid, square or not, and every code,         *)
(* rotate with the code and then with the code of its geometric inverse    *)
(* returns the grid; TopLeft and an unrecognized code return the input.    *)
C18_RotateRoundTrip ==
    /\ r_pc = "back" => r_dst = r_src
    /\ ( /\ r_pc = "rotated"
         /\ r_orientation \in {"TopLeft", Unrecognized} ) => r_dst = r_src

C18_Witness ==
    /\ r_pc = "back"
    /\ r_orientation = "RightTop"
    /\ r_src = << <<0, 1>> >>
    /\ r_dst = r_src

\* the transformations the codes are named for, on pixel coordinates
TurnClockwise(img) ==
    [r \in 1..width(img) |->
       [c \in 1..height(img) |-> img[height(img) + 1 - c][r]]]

TurnAnticlockwise(img) ==
    [r \in 1..width(img) |->
       [c \in 1..height(img) |-> img[c][width(img) + 1 - r]]]

FlipHorizontally(img) ==
    [r \in 1..height(img) |->
       [c \in 1..width(img) |-> img[r][width(img) + 1 - c]]]

====
